---------------------------- MODULE Spec2Model ----------------------------
(***************************************************************************)
(* Model of the four driver programs of the repository:                    *)
(*   matmul     matmul_dgemm_general.cpp  (src/unnamed/part_001)           *)
(*   svd        the LAPACKE_dgesvd demo   (src/unnamed/part_000)           *)
(*   linear     main-ecnormal-modelo-lineal.cpp                            *)
(*   quadratic  main-ecnormal-modelo-cuadratico.cpp                        *)
(*                                                                         *)
(* One run of one program is one behaviour.  Doubles are modelled by       *)
(* integers (small values, on which double arithmetic is exact).  The      *)
(* input stream is the sequence of units operator>> extracts: a unit is    *)
(* either a number or text that starts no number.  A file is a sequence of *)
(* lines; extraction skips all whitespace, line ends included.  Writing to *)
(* a stream that was opened is taken to succeed (the code never tests a    *)
(* stream after writing to it).                                            *)
(***************************************************************************)
EXTENDS Integers, Sequences, FiniteSets, TLC

(* ------------------------------ bounds --------------------------------- *)
\* largest dimension m, n, l a generated header declares
MaxDim == 3
\* generated bodies belong to headers with m*n + n*l <= MaxCells
MaxCells == 9
\* the library status codes are -MaxInfo..MaxInfo
MaxInfo == 2

VARIABLES
    prog,      \* which program this run executes
    pc,        \* position in main
    argc,      \* argument count (matmul)
    input,     \* content of the input file: a sequence of lines of units
    fin,       \* state of the input stream: "closed", "open", "fail"
    in_pos,    \* number of units extracted from fin so far
    m, n, l,   \* the header dimensions
    A_rm, B_rm,\* the matrices as read, row-major
    A, B, C,   \* the column-major buffers handed to dgemm_
    C_rm,      \* the product, row-major
    fout,      \* state of the output stream: "closed", "open", "fail"
    output,    \* content of the output file: a sequence of items
    info,      \* status returned by the LAPACKE routine (svd, linear, quadratic)
    printed,   \* the results (factors, coefficients) were written to cout
    cerr,      \* the diagnostic written to the error stream
    exitCode,  \* the value main returned; Running while main runs
    calls,     \* the stages main has executed, in order
    args,      \* the arguments of the dgemm_ call, once it was made (matmul)
    mem,       \* the arrays and vectors of svd, linear and quadratic, by name
    report     \* the diagnostics svd, linear and quadratic printed

vars == <<prog, pc, argc, input, fin, in_pos, m, n, l, A_rm, B_rm, A, B, C,
          C_rm, fout, output, info, printed, cerr, exitCode, calls, args, mem,
          report>>

Running == -1

Programs == {"matmul", "svd", "linear", "quadratic"}

(* --------------------------- input files ------------------------------- *)
\* a unit of the stream: a number, or text no number starts with
Num(v) == [ok |-> TRUE, v |-> v]
Junk == [ok |-> FALSE, v |-> 0]

RECURSIVE Flatten(_)
\* what operator>> sees of a file: the units of all lines, in order
Flatten(lines) ==
    IF lines = <<>> THEN <<>> ELSE Head(lines) \o Flatten(Tail(lines))

RECURSIVE SeqsUpTo(_, _)
\* all sequences over S of length 0..k
SeqsUpTo(S, k) ==
    IF k = 0 THEN {<<>>}
    ELSE LET shorter == SeqsUpTo(S, k - 1)
         IN  shorter \cup {Append(s, x) : s \in {t \in shorter : Len(t) = k - 1}, x \in S}

RECURSIVE Chunk(_, _)
\* s cut into lines of w units (the last line may be shorter)
Chunk(s, w) ==
    IF s = <<>> THEN <<>>
    ELSE IF Len(s) <= w THEN <<s>>
    ELSE <<SubSeq(s, 1, w)>> \o Chunk(SubSeq(s, w + 1, Len(s)), w)

\* the entries of generated bodies
Values == {Num(0), Num(1)}
Dims == 1..MaxDim

\* the file of the README: header 2 3 2, A = [[1,2,3],[1,1,1]], B = [[2,3],[3,4],[5,6]]
ScenarioFile ==
    << <<Num(2), Num(3), Num(2)>>,
       <<Num(1), Num(2), Num(3)>>,
       <<Num(1), Num(1), Num(1)>>,
       <<Num(2), Num(3)>>,
       <<Num(3), Num(4)>>,
       <<Num(5), Num(6)>> >>

\* a body laid out as the header declares: A in lines of cn units, B in lines of cl
Layout(body, rm, cn, cl) ==
    LET na == IF Len(body) < rm * cn THEN Len(body) ELSE rm * cn
    IN  Chunk(SubSeq(body, 1, na), cn) \o Chunk(SubSeq(body, na + 1, Len(body)), cl)

\* files with a valid header whose body holds numbers only: complete or cut short
NumericFiles ==
    UNION {{<< <<Num(rm), Num(cn), Num(cl)>> >> \o Layout(body, rm, cn, cl) :
                body \in SeqsUpTo(Values, rm * cn + cn * cl)} :
           <<rm, cn, cl>> \in {d \in Dims \X Dims \X Dims :
                                 d[1] * d[2] + d[2] * d[3] <= MaxCells}}

\* files with a valid header whose body ends with text that is no number
JunkFiles ==
    UNION {{<< <<Num(rm), Num(cn), Num(cl)>> >> \o Layout(Append(body, Junk), rm, cn, cl) :
                body \in SeqsUpTo(Values, rm * cn + cn * cl - 1)} :
           <<rm, cn, cl>> \in {d \in Dims \X Dims \X Dims :
                                 d[1] * d[2] + d[2] * d[3] <= MaxCells}}

\* files whose header line is short, not numeric or not positive
HeaderFiles ==
    {<<h>> : h \in SeqsUpTo({Num(v) : v \in (-1)..MaxDim} \cup {Junk}, 3)}

\* files whose lines disagree with the header: m lines of w units, then r lines of cl units
ShapedFiles ==
    {<< <<Num(rm), Num(cn), Num(cl)>> >>
        \o [i \in 1..rm |-> [j \in 1..w |-> Num(1)]]
        \o [i \in 1..r |-> [j \in 1..cl |-> Num(1)]] :
     rm \in Dims, cn \in Dims, cl \in Dims, w \in Dims, r \in Dims}

InputFiles ==
    NumericFiles \cup JunkFiles \cup HeaderFiles \cup ShapedFiles \cup {ScenarioFile}


ArgCounts == {1, 2, 3, 4}

(* ------------------- matmul: the functions of part_001 ------------------ *)
NoDiag == [kind |-> "none", name |-> "", i |-> 0, j |-> 0]
Diag(kind, name, i, j) == [kind |-> kind, name |-> name, i |-> i, j |-> j]

\* std::vector<double>(len): len elements, each 0.0
Zeros(len) == [p \in 1..len |-> 0]

\* one `in >> x`: the next unit if it is a number, else the stream fails
Extract(stream, pos) ==
    IF pos < Len(stream) /\ stream[pos + 1].ok
    THEN [ok |-> TRUE, v |-> stream[pos + 1].v, pos |-> pos + 1]
    ELSE [ok |-> FALSE, v |-> 0, pos |-> pos]

\* `fin >> m >> n >> l`: after a failed extraction the later ones do nothing
ReadDims(stream, pos) ==
    LET e1 == Extract(stream, pos)
        e2 == IF e1.ok THEN Extract(stream, e1.pos) ELSE [ok |-> FALSE, v |-> 0, pos |-> e1.pos]
        e3 == IF e2.ok THEN Extract(stream, e2.pos) ELSE [ok |-> FALSE, v |-> 0, pos |-> e2.pos]
    IN  [ok |-> e3.ok, m |-> e1.v, n |-> e2.v, l |-> e3.v, pos |-> e3.pos]

RECURSIVE ReadLoop(_, _, _, _, _, _)
\* the loops of read_matrix_row_major from element k = i*cols + j on
ReadLoop(stream, pos, rows, cols, k, M) ==
    IF k = rows * cols THEN [ok |-> TRUE, M |-> M, pos |-> pos, i |-> 0, j |-> 0]
    ELSE LET e == Extract(stream, pos)
         IN  IF ~e.ok
             THEN [ok |-> FALSE, M |-> M, pos |-> pos, i |-> k \div cols, j |-> k % cols]
             ELSE ReadLoop(stream, e.pos, rows, cols, k + 1, [M EXCEPT ![k + 1] = e.v])

\* read_matrix_row_major reporting the failed position as (j, i)
read_matrix_row_major_swapped(stream, pos, rows, cols) ==
    LET r == ReadLoop(stream, pos, rows, cols, 0, Zeros(rows * cols))
    IN  [r EXCEPT !.i = r.j, !.j = r.i]

\* read_matrix_row_major: rows*cols extractions in row-major order; a failed one
\* throws with the (i, j) it was reading
read_matrix_row_major(stream, pos, rows, cols) ==
    ReadLoop(stream, pos, rows, cols, 0, Zeros(rows * cols))

RECURSIVE ColLoop_short(_, _, _, _, _)
\* ColLoop with the outer loop ending one row early (i < rows - 1)
ColLoop_short(rm, rows, cols, k, cm) ==
    IF k >= (rows - 1) * cols THEN cm
    ELSE LET i == k \div cols
             j == k % cols
         IN  ColLoop_short(rm, rows, cols, k + 1, [cm EXCEPT ![j * rows + i + 1] = rm[i * cols + j + 1]])

RECURSIVE ColLoop(_, _, _, _, _)
ColLoop(rm, rows, cols, k, cm) ==
    IF k = rows * cols THEN cm
    ELSE LET i == k \div cols
             j == k % cols
         IN  ColLoop(rm, rows, cols, k + 1, [cm EXCEPT ![j * rows + i + 1] = rm[i * cols + j + 1]])

\* to_col_major copying the buffer without reordering it
to_col_major_copy(rm, rows, cols) == rm

\* to_col_major: cm[j*rows + i] = rm[i*cols + j]
to_col_major(rm, rows, cols) == ColLoop(rm, rows, cols, 0, Zeros(rows * cols))

RECURSIVE RowLoop(_, _, _, _, _)
RowLoop(cm, rows, cols, k, rm) ==
    IF k = rows * cols THEN rm
    ELSE LET i == k \div cols
             j == k % cols
         IN  RowLoop(cm, rows, cols, k + 1, [rm EXCEPT ![i * cols + j + 1] = cm[j * rows + i + 1]])

\* to_row_major copying the buffer without reordering it
to_row_major_copy(cm, rows, cols) == cm

\* to_row_major: rm[i*cols + j] = cm[j*rows + i]
to_row_major(cm, rows, cols) == RowLoop(cm, rows, cols, 0, Zeros(rows * cols))

RECURSIVE ColWrites(_, _, _)
\* the offsets of cm the loops of to_col_major assign, in the order of the loops,
\* from element k = i*cols + j on
ColWrites(rows, cols, k) ==
    IF k = rows * cols THEN <<>>
    ELSE <<(k % cols) * rows + (k \div cols)>> \o ColWrites(rows, cols, k + 1)

RECURSIVE RowWrites(_, _, _)
\* the offsets of rm the loops of to_row_major assign, in the order of the loops
RowWrites(rows, cols, k) ==
    IF k = rows * cols THEN <<>>
    ELSE <<(k \div cols) * cols + (k % cols)>> \o RowWrites(rows, cols, k + 1)

RECURSIVE DotLoop(_, _, _, _, _, _, _, _, _)
\* sum over k2 = 0..k of op(A)(i, k2) * op(B)(k2, j), column-major with leading dimensions
DotLoop(Aa, lda, ta, Bb, ldb, tb, i, j, k) ==
    IF k < 0 THEN 0
    ELSE LET a == IF ta = "N" THEN Aa[k * lda + i + 1] ELSE Aa[i * lda + k + 1]
             b == IF tb = "N" THEN Bb[j * ldb + k + 1] ELSE Bb[k * ldb + j + 1]
         IN  a * b + DotLoop(Aa, lda, ta, Bb, ldb, tb, i, j, k - 1)

\* dgemm_: C = alpha*op(A)*op(B) + beta*C on column-major buffers; with beta = 0
\* the old content of C is not read
dgemm_(ta, tb, M, N, K, alpha, Aa, lda, Bb, ldb, beta, Cc, ldc) ==
    [p \in 1..Len(Cc) |->
        LET i == (p - 1) % ldc
            j == (p - 1) \div ldc
        IN  IF i < M /\ j < N
            THEN alpha * DotLoop(Aa, lda, ta, Bb, ldb, tb, i, j, K - 1)
                 + (IF beta = 0 THEN 0 ELSE beta * Cc[p])
            ELSE Cc[p]]

\* items of the output file
Item(v) == [t |-> "num", v |-> v]
Sp == [t |-> "sp", v |-> 0]
Nl == [t |-> "nl", v |-> 0]

RECURSIVE WriteLoop_trailing(_, _, _, _, _)
\* WriteLoop writing the ' ' after every value, the last of a row included
WriteLoop_trailing(rm, rows, cols, k, out) ==
    IF k = rows * cols THEN out
    ELSE LET j == k % cols
             o1 == Append(Append(out, Item(rm[k + 1])), Sp)
             o2 == IF j + 1 < cols THEN o1 ELSE Append(o1, Nl)
         IN  WriteLoop_trailing(rm, rows, cols, k + 1, o2)

RECURSIVE WriteLoop(_, _, _, _, _)
\* the loops of write_matrix_row_major from element k = i*cols + j on
WriteLoop(rm, rows, cols, k, out) ==
    IF k = rows * cols THEN out
    ELSE LET j == k % cols
             o1 == Append(out, Item(rm[k + 1]))
             o2 == IF j + 1 < cols THEN Append(o1, Sp) ELSE Append(o1, Nl)
         IN  WriteLoop(rm, rows, cols, k + 1, o2)

\* write_matrix_row_major: "rows cols\n", then each row, values separated by ' '
write_matrix_row_major(out, rm, rows, cols) ==
    WriteLoop(rm, rows, cols, 0, out \o <<Item(rows), Sp, Item(cols), Nl>>)

(* ---------------------------- initial state ---------------------------- *)
\* dgemm_ was not called; no array declared yet; nothing reported
NoArgs == [called |-> FALSE]
NoMem == [none |-> <<>>]
NoReport == [none |-> <<>>]

Init ==
    /\ prog \in Programs
    /\ pc = "start"
    /\ argc = 0
    /\ input = <<>>
    /\ fin = "closed"
    /\ in_pos = 0
    /\ m = 0 /\ n = 0 /\ l = 0
    /\ A_rm = <<>> /\ B_rm = <<>>
    /\ A = <<>> /\ B = <<>> /\ C = <<>>
    /\ C_rm = <<>>
    /\ fout = "closed"
    /\ output = <<>>
    /\ info = 0
    /\ printed = FALSE
    /\ cerr = NoDiag
    /\ exitCode = Running
    /\ calls = <<>>
    /\ args = NoArgs
    /\ mem = NoMem
    /\ report = NoReport

(* --------------------------- matmul: main ------------------------------- *)
\* Throw with the handler returning the usage code
Throw_exit1(d) ==
    /\ cerr' = d
    /\ exitCode' = 1
    /\ pc' = "done"

\* a throw inside the try block: the handler prints the message and returns 2
Throw(d) ==
    /\ cerr' = d
    /\ exitCode' = 2
    /\ pc' = "done"

\* the argument check: anything but two arguments prints the usage and returns 1
CheckArgs ==
    /\ prog = "matmul" /\ pc = "start"
    /\ \E a \in ArgCounts :
        /\ argc' = a
        /\ IF a # 3
           THEN /\ cerr' = Diag("usage", "", 0, 0)
                /\ exitCode' = 1
                /\ pc' = "done"
           ELSE /\ pc' = "open_input"
                /\ UNCHANGED <<cerr, exitCode>>
    /\ UNCHANGED <<prog, args, mem, report, input, fin, in_pos, m, n, l, A_rm, B_rm, A, B, C, C_rm,
                   fout, output, info, printed, calls>>

\* std::ifstream fin(in_path) on a path that opens: the stream holds the file
OpenInput ==
    /\ prog = "matmul" /\ pc = "open_input"
    /\ \E f \in InputFiles : input' = f
    /\ fin' = "open"
    /\ pc' = "read_header"
    /\ calls' = Append(calls, "open_input")
    /\ UNCHANGED <<prog, args, mem, report, argc, in_pos, m, n, l, A_rm, B_rm, A, B, C, C_rm,
                   fout, output, info, printed, cerr, exitCode>>

\* std::ifstream fin(in_path) on a path that does not open: !fin, throw
OpenInputFails ==
    /\ prog = "matmul" /\ pc = "open_input"
    /\ fin' = "fail"
    /\ Throw(Diag("open_input", "", 0, 0))
    /\ calls' = Append(calls, "open_input")
    /\ UNCHANGED <<prog, args, mem, report, argc, input, in_pos, m, n, l, A_rm, B_rm, A, B, C, C_rm,
                   fout, output, info, printed>>

\* ReadHeader testing the dimensions with < 0 instead of <= 0
ReadHeader_lt ==
    /\ prog = "matmul" /\ pc = "read_header"
    /\ LET h == ReadDims(Flatten(input), in_pos)
       IN  /\ m' = h.m /\ n' = h.n /\ l' = h.l
           /\ in_pos' = h.pos
           /\ IF ~h.ok \/ h.m < 0 \/ h.n < 0 \/ h.l < 0
              THEN /\ cerr' = Diag("dimensions", "", 0, 0)
                   /\ exitCode' = 2
                   /\ pc' = "done"
                   /\ fin' = IF h.ok THEN fin ELSE "fail"
              ELSE /\ pc' = "read_A"
                   /\ UNCHANGED <<fin, cerr, exitCode>>
    /\ calls' = Append(calls, "read_header")
    /\ UNCHANGED <<prog, args, mem, report, argc, input, A_rm, B_rm, A, B, C, C_rm, fout, output,
                   info, printed>>

\* fin >> m >> n >> l and the test of the three dimensions
ReadHeader ==
    /\ prog = "matmul" /\ pc = "read_header"
    /\ LET h == ReadDims(Flatten(input), in_pos)
       IN  /\ m' = h.m /\ n' = h.n /\ l' = h.l
           /\ in_pos' = h.pos
           /\ IF ~h.ok \/ h.m <= 0 \/ h.n <= 0 \/ h.l <= 0
              THEN /\ Throw(Diag("dimensions", "", 0, 0))
                   /\ fin' = IF h.ok THEN fin ELSE "fail"
              ELSE /\ pc' = "read_A"
                   /\ UNCHANGED <<fin, cerr, exitCode>>
    /\ calls' = Append(calls, "read_header")
    /\ UNCHANGED <<prog, args, mem, report, argc, input, A_rm, B_rm, A, B, C, C_rm, fout, output,
                   info, printed>>

\* A_rm = read_matrix_row_major(fin, m, n, "A")
ReadA ==
    /\ prog = "matmul" /\ pc = "read_A"
    /\ LET r == read_matrix_row_major(Flatten(input), in_pos, m, n)
       IN  /\ in_pos' = r.pos
           /\ IF r.ok
              THEN /\ A_rm' = r.M
                   /\ pc' = "read_B"
                   /\ UNCHANGED <<fin, cerr, exitCode>>
              ELSE /\ Throw(Diag("read_matrix", "A", r.i, r.j))
                   /\ fin' = "fail"
                   /\ UNCHANGED A_rm
    /\ calls' = Append(calls, "read_A")
    /\ UNCHANGED <<prog, args, mem, report, argc, input, m, n, l, B_rm, A, B, C, C_rm, fout, output,
                   info, printed>>

\* B_rm = read_matrix_row_major(fin, n, l, "B")
ReadB ==
    /\ prog = "matmul" /\ pc = "read_B"
    /\ LET r == read_matrix_row_major(Flatten(input), in_pos, n, l)
       IN  /\ in_pos' = r.pos
           /\ IF r.ok
              THEN /\ B_rm' = r.M
                   /\ pc' = "col_A"
                   /\ UNCHANGED <<fin, cerr, exitCode>>
              ELSE /\ Throw(Diag("read_matrix", "B", r.i, r.j))
                   /\ fin' = "fail"
                   /\ UNCHANGED B_rm
    /\ calls' = Append(calls, "read_B")
    /\ UNCHANGED <<prog, args, mem, report, argc, input, m, n, l, A_rm, A, B, C, C_rm, fout, output,
                   info, printed>>

\* AdaptA handing the row-major A to dgemm_ unconverted
AdaptA_skip ==
    /\ prog = "matmul" /\ pc = "col_A"
    /\ A' = A_rm
    /\ pc' = "col_B"
    /\ calls' = Append(calls, "to_col_major_A")
    /\ UNCHANGED <<prog, args, mem, report, argc, input, fin, in_pos, m, n, l, A_rm, B_rm, B, C, C_rm,
                   fout, output, info, printed, cerr, exitCode>>

\* A = to_col_major(A_rm, m, n)
AdaptA ==
    /\ prog = "matmul" /\ pc = "col_A"
    /\ A' = to_col_major(A_rm, m, n)
    /\ pc' = "col_B"
    /\ calls' = Append(calls, "to_col_major_A")
    /\ UNCHANGED <<prog, args, mem, report, argc, input, fin, in_pos, m, n, l, A_rm, B_rm, B, C, C_rm,
                   fout, output, info, printed, cerr, exitCode>>

\* B = to_col_major(B_rm, n, l)
AdaptB ==
    /\ prog = "matmul" /\ pc = "col_B"
    /\ B' = to_col_major(B_rm, n, l)
    /\ pc' = "dgemm"
    /\ calls' = Append(calls, "to_col_major_B")
    /\ UNCHANGED <<prog, args, mem, report, argc, input, fin, in_pos, m, n, l, A_rm, B_rm, A, C, C_rm,
                   fout, output, info, printed, cerr, exitCode>>

\* the arguments main hands to dgemm_ with the C buffer c0: 'N', 'N', M = m, N = l,
\* K = n, alpha = 1, lda = m, ldb = n, beta = 0, ldc = m
CallArgs(c0) ==
    [called |-> TRUE, transa |-> "N", transb |-> "N", M |-> m, N |-> l, K |-> n,
     alpha |-> 1, lda |-> m, ldb |-> n, beta |-> 0, ldc |-> m,
     lenA |-> Len(A), lenB |-> Len(B), lenC |-> Len(c0)]

\* Invoke with the C buffer sized m*n instead of m*l
Invoke_c_size ==
    /\ prog = "matmul" /\ pc = "dgemm"
    /\ LET c0 == Zeros(m * n)
           a == CallArgs(c0)
       IN  /\ args' = a
           /\ C' = dgemm_(a.transa, a.transb, a.M, a.N, a.K, a.alpha, A, a.lda, B, a.ldb,
                          a.beta, c0, a.ldc)
    /\ pc' = "row_C"
    /\ calls' = Append(calls, "dgemm_")
    /\ UNCHANGED <<prog, mem, report, argc, input, fin, in_pos, m, n, l, A_rm, B_rm, A, B,
                   C_rm, fout, output, info, printed, cerr, exitCode>>

\* C(m*l, 0.0) and the call of dgemm_
Invoke ==
    /\ prog = "matmul" /\ pc = "dgemm"
    /\ LET c0 == Zeros(m * l)
           a == CallArgs(c0)
       IN  /\ args' = a
           /\ C' = dgemm_(a.transa, a.transb, a.M, a.N, a.K, a.alpha, A, a.lda, B, a.ldb,
                          a.beta, c0, a.ldc)
    /\ pc' = "row_C"
    /\ calls' = Append(calls, "dgemm_")
    /\ UNCHANGED <<prog, mem, report, argc, input, fin, in_pos, m, n, l, A_rm, B_rm, A, B,
                   C_rm, fout, output, info, printed, cerr, exitCode>>

\* C_rm = to_row_major(C, m, l)
AdaptBack ==
    /\ prog = "matmul" /\ pc = "row_C"
    /\ C_rm' = to_row_major(C, m, l)
    /\ pc' = "open_output"
    /\ calls' = Append(calls, "to_row_major_C")
    /\ UNCHANGED <<prog, args, mem, report, argc, input, fin, in_pos, m, n, l, A_rm, B_rm, A, B, C,
                   fout, output, info, printed, cerr, exitCode>>

\* std::ofstream fout(out_path) on a path that opens: the file is created empty
OpenOutput ==
    /\ prog = "matmul" /\ pc = "open_output"
    /\ fout' = "open"
    /\ output' = <<>>
    /\ pc' = "write"
    /\ calls' = Append(calls, "open_output")
    /\ UNCHANGED <<prog, args, mem, report, argc, input, fin, in_pos, m, n, l, A_rm, B_rm, A, B, C, C_rm,
                   info, printed, cerr, exitCode>>

\* OpenOutputFails trying the open again instead of giving up
OpenOutputFails_retry ==
    /\ prog = "matmul" /\ pc = "open_output"
    /\ fout' = "fail"
    /\ pc' = "open_output"
    /\ calls' = Append(calls, "open_output")
    /\ UNCHANGED <<prog, args, mem, report, argc, input, fin, in_pos, m, n, l, A_rm, B_rm, A, B, C, C_rm,
                   output, info, printed, cerr, exitCode>>

\* std::ofstream fout(out_path) on a path that does not open: !fout, throw
OpenOutputFails ==
    /\ prog = "matmul" /\ pc = "open_output"
    /\ fout' = "fail"
    /\ Throw(Diag("open_output", "", 0, 0))
    /\ calls' = Append(calls, "open_output")
    /\ UNCHANGED <<prog, args, mem, report, argc, input, fin, in_pos, m, n, l, A_rm, B_rm, A, B, C, C_rm,
                   output, info, printed>>

\* write_matrix_row_major(fout, C_rm, m, l), the OK line, return 0
Emit ==
    /\ prog = "matmul" /\ pc = "write"
    /\ output' = write_matrix_row_major(output, C_rm, m, l)
    /\ exitCode' = 0
    /\ pc' = "done"
    /\ calls' = Append(calls, "write")
    /\ UNCHANGED <<prog, args, mem, report, argc, input, fin, in_pos, m, n, l, A_rm, B_rm, A, B, C, C_rm,
                   fout, info, printed, cerr>>

MatmulNext ==
    \/ CheckArgs
    \/ OpenInput
    \/ OpenInputFails
    \/ ReadHeader
    \/ ReadA
    \/ ReadB
    \/ AdaptA
    \/ AdaptB
    \/ Invoke
    \/ AdaptBack
    \/ OpenOutput
    \/ OpenOutputFails
    \/ Emit

(* ------------------ svd, linear, quadratic: main ------------------------ *)
\* The data of these programs are hardcoded.  Values with one decimal (the matrix
\* of svd, the y of quadratic) are held in tenths.  What a LAPACKE routine
\* leaves in an array it overwrites is one of a few contents, chosen by the
\* library: every element equal to one value of LibValues.

\* the status a LAPACKE routine may return: 0, -i (argument i illegal), or > 0
InfoCodes == (-MaxInfo)..MaxInfo

\* the values the library may leave in the elements of an array it writes
LibValues == {-1, 2}

\* an array of len elements after the library wrote v to each
Filled(len, v) == [p \in 1..len |-> v]

\* the largest element of a sequence of non-negative numbers, 0.0 if none is larger
MaxOf(s) == IF \E p \in DOMAIN s : s[p] > 0
            THEN CHOOSE x \in {s[p] : p \in DOMAIN s} : \A q \in DOMAIN s : s[q] <= x
            ELSE 0

\* std::fabs
Fabs(x) == IF x < 0 THEN -x ELSE x

RECURSIVE SumSeq(_, _)
\* s[1] + ... + s[k]
SumSeq(s, k) == IF k = 0 THEN 0 ELSE s[k] + SumSeq(s, k - 1)

\* the product of two 2x2 row-major arrays, as the three nested loops compute it
Mul2(X, Y) ==
    [p \in 1..4 |->
        LET i == (p - 1) \div 2
            j == (p - 1) % 2
        IN  X[i * 2 + 1] * Y[j + 1] + X[i * 2 + 2] * Y[2 + j + 1]]

\* svd: double A[4] = {1.0, -0.8, 0.0, 1.0}, in tenths
SvdA == <<10, -8, 0, 10>>

\* svd: the declarations of A, S, U, VT
SvdData ==
    /\ prog = "svd" /\ pc = "start"
    /\ mem' = [A |-> SvdA, S |-> Zeros(2), U |-> Zeros(4), VT |-> Zeros(4)]
    /\ pc' = "call"
    /\ UNCHANGED <<prog, args, report, argc, input, fin, in_pos, m, n, l, A_rm, B_rm, A, B, C,
                   C_rm, fout, output, info, printed, cerr, exitCode, calls>>

\* info = LAPACKE_dgesvd(LAPACK_ROW_MAJOR, 'A', 'A', m, n, A, lda, S, U, m, VT, n, superb):
\* S, U and VT are written, the content of A is destroyed
SvdCall ==
    /\ prog = "svd" /\ pc = "call"
    /\ info' \in InfoCodes
    /\ \E a \in LibValues, s \in LibValues, u \in LibValues, v \in LibValues :
          mem' = [mem EXCEPT !.A = Filled(4, a), !.S = Filled(2, s),
                             !.U = Filled(4, u), !.VT = Filled(4, v)]
    /\ pc' = "check"
    /\ calls' = Append(calls, "LAPACKE_dgesvd")
    /\ UNCHANGED <<prog, args, report, argc, input, fin, in_pos, m, n, l, A_rm, B_rm, A, B, C,
                   C_rm, fout, output, printed, cerr, exitCode>>

\* if (info != 0): one message carrying info as returned, return 1
SvdCheck ==
    /\ prog = "svd" /\ pc = "check"
    /\ IF info # 0
       THEN /\ cerr' = Diag("dgesvd_info", "LAPACKE_dgesvd", info, 0)
            /\ exitCode' = 1
            /\ pc' = "done"
       ELSE /\ pc' = "report"
            /\ UNCHANGED <<cerr, exitCode>>
    /\ UNCHANGED <<prog, args, mem, report, argc, input, fin, in_pos, m, n, l, A_rm, B_rm, A, B,
                   C, C_rm, fout, output, info, printed, calls>>

\* the reconstruction A_rec = (U * Sigma) * VT and its largest distance from ref
SvdDiagnostics(ref) ==
    LET Sigma == <<mem.S[1], 0, 0, mem.S[2]>>
        US == Mul2(mem.U, Sigma)
        A_rec == Mul2(US, mem.VT)
    IN  [A_rec |-> A_rec,
         max_err |-> MaxOf([p \in 1..4 |-> Fabs(A_rec[p] - ref[p])])]

\* S, U, V^T are printed, A is reconstructed, A_orig is declared and the largest
\* |A_rec - A_orig| is printed; return 0
SvdReport ==
    /\ prog = "svd" /\ pc = "report"
    /\ mem' = [A_orig |-> SvdA] @@ mem
    /\ report' = SvdDiagnostics(SvdA)
    /\ printed' = TRUE
    /\ exitCode' = 0
    /\ pc' = "done"
    /\ UNCHANGED <<prog, args, argc, input, fin, in_pos, m, n, l, A_rm, B_rm, A, B, C, C_rm,
                   fout, output, info, cerr, calls>>

\* a throw inside the try block of the fitting programs: the handler returns 1
ThrowFit(d) ==
    /\ cerr' = d
    /\ exitCode' = 1
    /\ pc' = "done"

\* linear: the points (1,2), (2,2), (3,4), (4,5)
LinearX == <<1, 2, 3, 4>>
LinearY == <<2, 2, 4, 5>>

\* cblas_dgemv(CblasColMajor, CblasTrans, M, N, 1.0, A, lda, x, 1, 0.0, y, 1):
\* y[j] = sum over i of A(i, j) * x[i]
cblas_dgemv_trans(M, N, Aa, lda, xv) ==
    [j \in 1..N |-> SumSeq([i \in 1..M |-> Aa[(j - 1) * lda + i] * xv[i]], M)]

\* linear: x, y_rm, its copy y, the design matrix A = [x 1] (column-major), ATA = A^T A with
\* cblas_dgemm, ATy = A^T y with cblas_dgemv, and theta, the copy of ATy
LinearData ==
    /\ prog = "linear" /\ pc = "start"
    /\ LET rows == Len(LinearX)
           Ad == [p \in 1..(2 * rows) |-> IF p <= rows THEN LinearX[p] ELSE 1]
           ATA == dgemm_("T", "N", 2, 2, rows, 1, Ad, rows, Ad, rows, 0, Zeros(4), 2)
           ATy == cblas_dgemv_trans(rows, 2, Ad, rows, LinearY)
       IN  mem' = [x |-> LinearX, y_rm |-> LinearY, y |-> LinearY, A |-> Ad, ATA |-> ATA, ATy |-> ATy,
                   theta |-> ATy]
    /\ pc' = "call"
    /\ UNCHANGED <<prog, args, report, argc, input, fin, in_pos, m, n, l, A_rm, B_rm, A, B, C,
                   C_rm, fout, output, info, printed, cerr, exitCode, calls>>

\* info = LAPACKE_dgesv(LAPACK_COL_MAJOR, n, 1, ATA, n, ipiv, theta, n): ATA is
\* overwritten by its factors, theta by the solution
LinearCall ==
    /\ prog = "linear" /\ pc = "call"
    /\ info' \in InfoCodes
    /\ \E f \in LibValues, a \in LibValues, b \in LibValues :
          mem' = [mem EXCEPT !.ATA = Filled(4, f), !.theta = <<a, b>>]
    /\ pc' = "check"
    /\ calls' = Append(calls, "LAPACKE_dgesv")
    /\ UNCHANGED <<prog, args, report, argc, input, fin, in_pos, m, n, l, A_rm, B_rm, A, B, C,
                   C_rm, fout, output, printed, cerr, exitCode>>

\* info < 0: illegal argument at position -info; info > 0: singular matrix
LinearCheck ==
    /\ prog = "linear" /\ pc = "check"
    /\ IF info < 0
       THEN ThrowFit(Diag("illegal_argument", "LAPACKE_dgesv", -info, 0))
       ELSE IF info > 0
       THEN ThrowFit(Diag("singular", "LAPACKE_dgesv", info, 0))
       ELSE /\ pc' = "report"
            /\ UNCHANGED <<cerr, exitCode>>
    /\ UNCHANGED <<prog, args, mem, report, argc, input, fin, in_pos, m, n, l, A_rm, B_rm, A, B,
                   C, C_rm, fout, output, info, printed, calls>>

\* a = theta[0], b = theta[1]; the table y_hat = a*x[i] + b, err = y_hat - y[i];
\* SSE and MSE are printed; return 0
LinearReport ==
    /\ prog = "linear" /\ pc = "report"
    /\ LET a == mem.theta[1]
           b == mem.theta[2]
           err == [i \in 1..Len(mem.x) |-> a * mem.x[i] + b - mem.y[i]]
           sse == SumSeq([i \in 1..Len(err) |-> err[i] * err[i]], Len(err))
       IN  report' = [a |-> a, b |-> b, err |-> err, sse |-> sse, samples |-> Len(mem.x)]
    /\ printed' = TRUE
    /\ exitCode' = 0
    /\ pc' = "done"
    /\ UNCHANGED <<prog, args, mem, argc, input, fin, in_pos, m, n, l, A_rm, B_rm, A, B, C,
                   C_rm, fout, output, info, cerr, calls>>

\* quadratic: the points (0,1.2), (1,2.0), (2,2.9), (3,4.1), (4,5.8), (5,8.2), y in tenths
QuadraticX == <<0, 1, 2, 3, 4, 5>>
QuadraticY == <<12, 20, 29, 41, 58, 82>>

\* quadratic: x, y, the design matrix A = [x^2 x 1] (column-major) and B, the
\* copy of y of length ldb = max(m, n)
QuadraticData ==
    /\ prog = "quadratic" /\ pc = "start"
    /\ LET rows == Len(QuadraticX)
           ldb == IF rows >= 3 THEN rows ELSE 3
           Ad == [p \in 1..(3 * rows) |->
                    IF p <= rows THEN QuadraticX[p] * QuadraticX[p]
                    ELSE IF p <= 2 * rows THEN QuadraticX[p - rows] ELSE 1]
           Bd == [p \in 1..ldb |-> IF p <= rows THEN QuadraticY[p] ELSE 0]
       IN  mem' = [x |-> QuadraticX, y |-> QuadraticY, A |-> Ad, B |-> Bd]
    /\ pc' = "call"
    /\ UNCHANGED <<prog, args, report, argc, input, fin, in_pos, m, n, l, A_rm, B_rm, A, B, C,
                   C_rm, fout, output, info, printed, cerr, exitCode, calls>>

\* info = LAPACKE_dgels(LAPACK_COL_MAJOR, 'N', m, n, nrhs, A, m, B, ldb): A is
\* overwritten by its factorization, B by the solution and the residual part
QuadraticCall ==
    /\ prog = "quadratic" /\ pc = "call"
    /\ info' \in InfoCodes
    /\ \E f \in LibValues, a \in LibValues, b \in LibValues, c \in LibValues :
          mem' = [mem EXCEPT !.A = Filled(Len(mem.A), f),
                             !.B = [p \in 1..Len(mem.B) |->
                                      IF p = 1 THEN a ELSE IF p = 2 THEN b ELSE c]]
    /\ pc' = "check"
    /\ calls' = Append(calls, "LAPACKE_dgels")
    /\ UNCHANGED <<prog, args, report, argc, input, fin, in_pos, m, n, l, A_rm, B_rm, A, B, C,
                   C_rm, fout, output, printed, cerr, exitCode>>

\* info < 0: illegal argument at position -info; info > 0: numerical failure
QuadraticCheck ==
    /\ prog = "quadratic" /\ pc = "check"
    /\ IF info < 0
       THEN ThrowFit(Diag("illegal_argument", "LAPACKE_dgels", -info, 0))
       ELSE IF info > 0
       THEN ThrowFit(Diag("numeric_failure", "LAPACKE_dgels", info, 0))
       ELSE /\ pc' = "report"
            /\ UNCHANGED <<cerr, exitCode>>
    /\ UNCHANGED <<prog, args, mem, report, argc, input, fin, in_pos, m, n, l, A_rm, B_rm, A, B,
                   C, C_rm, fout, output, info, printed, calls>>

\* the coefficients B[0], B[1], B[2] and the table y_hat = a*x^2 + b*x + c,
\* err = y_hat - obs[i], SSE and MSE = SSE / m
QuadraticDiagnostics(obs) ==
    LET a == mem.B[1]
        b == mem.B[2]
        c == mem.B[3]
        err == [i \in 1..Len(mem.x) |-> a * mem.x[i] * mem.x[i] + b * mem.x[i] + c - obs[i]]
        sse == SumSeq([i \in 1..Len(err) |-> err[i] * err[i]], Len(err))
    IN  [a |-> a, b |-> b, c |-> c, err |-> err, sse |-> sse, samples |-> Len(mem.x)]

\* QuadraticReport taking the observed values from B, which dgels has overwritten
QuadraticReport_uses_B ==
    /\ prog = "quadratic" /\ pc = "report"
    /\ report' = QuadraticDiagnostics(mem.B)
    /\ printed' = TRUE
    /\ pc' = "csv"
    /\ UNCHANGED <<prog, args, mem, argc, input, fin, in_pos, m, n, l, A_rm, B_rm, A, B, C,
                   C_rm, fout, output, info, cerr, exitCode, calls>>

\* a, b, c, the table of predictions, SSE and MSE are printed
QuadraticReport ==
    /\ prog = "quadratic" /\ pc = "report"
    /\ report' = QuadraticDiagnostics(mem.y)
    /\ printed' = TRUE
    /\ pc' = "csv"
    /\ UNCHANGED <<prog, args, mem, argc, input, fin, in_pos, m, n, l, A_rm, B_rm, A, B, C,
                   C_rm, fout, output, info, cerr, exitCode, calls>>

\* std::ofstream out("fit.csv") opens, the table is written; return 0
QuadraticCsv ==
    /\ prog = "quadratic" /\ pc = "csv"
    /\ fout' = "open"
    /\ exitCode' = 0
    /\ pc' = "done"
    /\ UNCHANGED <<prog, args, mem, report, argc, input, fin, in_pos, m, n, l, A_rm, B_rm, A, B,
                   C, C_rm, output, info, printed, cerr, calls>>

\* std::ofstream out("fit.csv") does not open: throw
QuadraticCsvFails ==
    /\ prog = "quadratic" /\ pc = "csv"
    /\ fout' = "fail"
    /\ ThrowFit(Diag("open_csv", "", 0, 0))
    /\ UNCHANGED <<prog, args, mem, report, argc, input, fin, in_pos, m, n, l, A_rm, B_rm, A, B,
                   C, C_rm, output, info, printed, calls>>

LapackNext ==
    \/ SvdData
    \/ SvdCall
    \/ SvdCheck
    \/ SvdReport
    \/ LinearData
    \/ LinearCall
    \/ LinearCheck
    \/ LinearReport
    \/ QuadraticData
    \/ QuadraticCall
    \/ QuadraticCheck
    \/ QuadraticReport
    \/ QuadraticCsv
    \/ QuadraticCsvFails

Next == MatmulNext \/ LapackNext

Spec == Init /\ [][Next]_vars

(* ------------------------------ claims ---------------------------------- *)
\* the file as the sequence of its units
Units == Flatten(input)

\* the three header values of the opened file
HdrM == Units[1].v
HdrN == Units[2].v
HdrL == Units[3].v

\* the file was opened and its header extracted
HeaderRead == prog = "matmul" /\ "read_header" \in {calls[p] : p \in DOMAIN calls}

Called(stage) == stage \in {calls[p] : p \in DOMAIN calls}

\* entry (i, k) of A and entry (k, j) of B as they stand in the file, row-major
FileA(i, k) == Units[3 + i * HdrN + k + 1].v
FileB(k, j) == Units[3 + HdrM * HdrN + k * HdrL + j + 1].v

\* the value the output file holds for row i, column j
FileC(i, j) == output[4 + i * (2 * HdrL) + 2 * j + 1].v

RECURSIVE Sigma(_, _)
\* f[0] + ... + f[k]
Sigma(f, k) == IF k < 0 THEN 0 ELSE f[k] + Sigma(f, k - 1)

\* C1: after a successful run every value of the output file is the inner product
\* of the matching row of A and column of B of the input file
C1_MultiplyCorrect ==
    (prog = "matmul" /\ exitCode = 0) =>
        /\ HdrM > 0 /\ HdrN > 0 /\ HdrL > 0
        /\ \A i \in 0..(HdrM - 1), j \in 0..(HdrL - 1) :
              FileC(i, j) = Sigma([k \in 0..(HdrN - 1) |-> FileA(i, k) * FileB(k, j)], HdrN - 1)

\* a successful 2x3 by 3x1 product with an entry that sums several terms
C1_Witness ==
    /\ prog = "matmul" /\ exitCode = 0
    /\ m = 2 /\ n = 3 /\ l = 1
    /\ \E p \in DOMAIN C_rm : C_rm[p] >= 2
    /\ \E p \in DOMAIN C_rm : C_rm[p] = 0

\* C2: the two layout conversions undo each other: converting the column-major A
\* and B back gives the matrices as read, and converting the row-major product
\* forth gives the buffer dgemm_ filled
C2_RoundTrip ==
    /\ (prog = "matmul" /\ Called("to_col_major_A")) =>
          /\ to_row_major(A, m, n) = A_rm
          /\ to_col_major(to_row_major(A, m, n), m, n) = A
    /\ (prog = "matmul" /\ Called("to_col_major_B")) =>
          /\ to_row_major(B, n, l) = B_rm
          /\ to_col_major(to_row_major(B, n, l), n, l) = B
    /\ (prog = "matmul" /\ Called("to_row_major_C")) =>
          /\ to_col_major(C_rm, m, l) = C
          /\ to_row_major(to_col_major(C_rm, m, l), m, l) = C_rm

\* a 3x2 matrix whose two layouts differ has been converted, and a product too
C2_Witness ==
    /\ prog = "matmul" /\ Called("to_row_major_C")
    /\ m = 3 /\ n = 2
    /\ A # A_rm
    /\ Len(C_rm) > 1

\* the header of file f: three units, all numbers, all positive
HeaderGood(f) ==
    LET s == Flatten(f)
    IN  /\ Len(s) >= 3
        /\ \A p \in 1..3 : s[p].ok /\ s[p].v > 0

\* the number of numeric units that follow the header of f before the first unit
\* that is missing or no number
BodyNumbers(f) ==
    LET s == Flatten(f)
        stop == {p \in 3..Len(s) : p = Len(s) \/ ~s[p + 1].ok}
    IN  (CHOOSE p \in stop : \A q \in stop : p <= q) - 3

\* the number of matrix entries the header of f announces
BodyNeeded(f) ==
    LET s == Flatten(f)
    IN  s[1].v * s[2].v + s[2].v * s[3].v

\* f holds the two matrices as blocks of lines: a header line, m lines of one
\* width (the rows of A), then one or more lines of one width (the rows of B)
HasBlocks(f) ==
    /\ Len(f) >= 3
    /\ Len(f[1]) = 3
    /\ HeaderGood(f)
    /\ Len(f) >= f[1][1].v + 2
    /\ \A p \in 2..(f[1][1].v + 1) : Len(f[p]) = Len(f[2]) /\ Len(f[p]) >= 1
    /\ \A p \in (f[1][1].v + 2)..Len(f) : Len(f[p]) = Len(f[Len(f)]) /\ Len(f[p]) >= 1

\* the column count of the A block and the row count of the B block of f
BlockColsA(f) == Len(f[2])
BlockRowsB(f) == Len(f) - 1 - f[1][1].v

\* C3: for a file whose A block has a column count other than the row count of
\* its B block, the run ends with the invalid-dimension error and never calls dgemm_
C3_MismatchRejected ==
    (HeaderRead /\ HasBlocks(input) /\ BlockColsA(input) # BlockRowsB(input)) =>
        /\ ~Called("dgemm_")
        /\ pc = "done" => (exitCode = 2 /\ cerr.kind = "dimensions")

\* C4: a header with a missing, non-numeric or non-positive dimension ends the run
\* with the invalid-dimension error and exit code 2; no matrix entry is extracted,
\* dgemm_ is not called, the output file is not opened
C4_BadHeaderRejected ==
    (HeaderRead /\ ~HeaderGood(input)) =>
        /\ pc = "done"
        /\ exitCode = 2
        /\ cerr = Diag("dimensions", "", 0, 0)
        /\ in_pos <= 3
        /\ A_rm = <<>> /\ B_rm = <<>>
        /\ ~Called("read_A") /\ ~Called("dgemm_") /\ ~Called("open_output")
        /\ fout = "closed" /\ output = <<>>

\* the header 0 3 2 was rejected
C4_Witness ==
    /\ HeaderRead /\ pc = "done"
    /\ m = 0 /\ n = 3 /\ l = 2
    /\ cerr.kind = "dimensions"

\* C5: after a valid header, a body with fewer numbers than m*n + n*l ends the run
\* with exit code 2 and the read error naming the matrix and the (row, col) of the
\* first unit that is missing or no number; dgemm_ is not called and the output
\* file is neither opened nor written
C5_MalformedRejected ==
    (HeaderRead /\ HeaderGood(input) /\ BodyNumbers(input) < BodyNeeded(input)) =>
        LET k == BodyNumbers(input)
            inA == k < HdrM * HdrN
            kB == k - HdrM * HdrN
        IN  /\ pc \in {"read_A", "read_B", "done"}
            /\ ~Called("dgemm_") /\ ~Called("open_output")
            /\ fout = "closed" /\ output = <<>>
            /\ pc = "done" =>
                  /\ exitCode = 2
                  /\ cerr = IF inA
                            THEN Diag("read_matrix", "A", k \div HdrN, k % HdrN)
                            ELSE Diag("read_matrix", "B", kB \div HdrL, kB % HdrL)

\* a run failed on the second row of a B that has several columns
C5_Witness ==
    /\ HeaderRead /\ pc = "done"
    /\ cerr.kind = "read_matrix" /\ cerr.name = "B"
    /\ cerr.i = 1 /\ cerr.j = 2

\* the whole pipeline of a finished run succeeded: two arguments, the input
\* opened, header and body complete, the output opened
PipelineSucceeded ==
    /\ argc = 3
    /\ HeaderRead
    /\ HeaderGood(input)
    /\ BodyNumbers(input) >= BodyNeeded(input)
    /\ fout = "open"

C7_StatusClassified ==
    (prog \in {"svd", "linear", "quadratic"} /\ pc = "done") =>
        /\ printed => info = 0
        /\ info < 0 => /\ cerr.kind = "illegal_argument" /\ cerr.i = -info
                       /\ exitCode # 0 /\ ~printed
        /\ info > 0 => /\ cerr.kind \in {"singular", "numeric_failure"}
                       /\ exitCode # 0 /\ ~printed

\* the output of the README scenario: 2 2, then 23 29, then 10 13
ScenarioOutput ==
    <<Item(2), Sp, Item(2), Nl,
      Item(23), Sp, Item(29), Nl,
      Item(10), Sp, Item(13), Nl>>

Formatted(rm, rows, cols) ==
    [p \in 1..(4 + 2 * rows * cols) |->
        IF p <= 4 THEN <<Item(rows), Sp, Item(cols), Nl>>[p]
        ELSE LET q == p - 5
                 i == q \div (2 * cols)
                 r == q % (2 * cols)
             IN  IF r % 2 = 0 THEN Item(rm[i * cols + (r \div 2) + 1])
                 ELSE IF r = 2 * cols - 1 THEN Nl ELSE Sp]

\* C9: after a successful run the output file is the line "m l" (of the input
\* header) followed by m lines of l values of C in row-major order, separated by
\* single spaces, without a trailing separator
C9_OutputFormat ==
    (prog = "matmul" /\ exitCode = 0) =>
        /\ output = Formatted(C_rm, HdrM, HdrL)
        /\ Cardinality({p \in DOMAIN output : output[p] = Nl}) = HdrM + 1
        /\ \A p \in DOMAIN output : output[p] = Sp => (p < Len(output) /\ output[p + 1].t = "num")

\* a product with several rows and several columns has been written
C9_Witness ==
    /\ prog = "matmul" /\ exitCode = 0
    /\ m = 2 /\ l = 3
    /\ Len(output) = 16

\* the stages of the pipeline in the order of main
StageOrder ==
    <<"open_input", "read_header", "read_A", "read_B", "to_col_major_A",
      "to_col_major_B", "dgemm_", "to_row_major_C", "open_output", "write">>

\* C10: the stages a run has executed are an initial part of Read, Adapt, Invoke,
\* Adapt-back, Emit, each at most once; the output file is touched only after
\* dgemm_; a run that has failed has stopped for good
C10_StageOrder ==
    prog = "matmul" =>
        /\ Len(calls) <= Len(StageOrder)
        /\ calls = SubSeq(StageOrder, 1, Len(calls))
        /\ Cardinality({p \in DOMAIN calls : calls[p] = "dgemm_"}) <= 1
        /\ fout # "closed" => Called("dgemm_")
        /\ exitCode \notin {Running, 0} => (pc = "done" /\ ~ENABLED Next)

\* a run went through all stages, and so has one that failed after dgemm_
C10_Witness ==
    /\ prog = "matmul" /\ pc = "done"
    /\ exitCode = 2 /\ Called("dgemm_") /\ Len(calls) = 9

\* the offsets 0..len-1 each occur exactly once in ws
WrittenOnce(ws, len) ==
    /\ Len(ws) = len
    /\ \A q \in 0..(len - 1) : Cardinality({k \in DOMAIN ws : ws[k] = q}) = 1

\* the matrices A and B as they stand in the file, as row-major buffers
FileBufferA == [p \in 1..(HdrM * HdrN) |-> Units[3 + p].v]
FileBufferB == [p \in 1..(HdrN * HdrL) |-> Units[3 + HdrM * HdrN + p].v]

\* C11: the buffer to_col_major returns has rows*cols elements with
\* cm[j*rows + i] = rm[i*cols + j], each offset assigned exactly once, and the
\* row-major input still holds what was read; to_row_major likewise, its
\* column-major input still holding what dgemm_ wrote
C11_LayoutMapping ==
    /\ (prog = "matmul" /\ Called("to_col_major_A")) =>
          /\ Len(A) = m * n
          /\ \A i \in 0..(m - 1), j \in 0..(n - 1) : A[j * m + i + 1] = A_rm[i * n + j + 1]
          /\ WrittenOnce(ColWrites(m, n, 0), m * n)
          /\ A_rm = FileBufferA
    /\ (prog = "matmul" /\ Called("to_col_major_B")) =>
          /\ Len(B) = n * l
          /\ \A i \in 0..(n - 1), j \in 0..(l - 1) : B[j * n + i + 1] = B_rm[i * l + j + 1]
          /\ WrittenOnce(ColWrites(n, l, 0), n * l)
          /\ B_rm = FileBufferB
    /\ (prog = "matmul" /\ Called("to_row_major_C")) =>
          /\ Len(C_rm) = m * l
          /\ \A i \in 0..(m - 1), j \in 0..(l - 1) : C_rm[i * l + j + 1] = C[j * m + i + 1]
          /\ WrittenOnce(RowWrites(m, l, 0), m * l)
          /\ \A i \in 0..(m - 1), j \in 0..(l - 1) :
                C[j * m + i + 1] = Sigma([k \in 0..(n - 1) |-> FileA(i, k) * FileB(k, j)], n - 1)

\* a 2x3 matrix with distinct layouts was converted to column-major, and a
\* product with several rows and columns back to row-major
C11_Witness ==
    /\ prog = "matmul" /\ Called("to_row_major_C")
    /\ m = 2 /\ n = 3
    /\ A # A_rm
    /\ A_rm[3] = 1 /\ A[5] = 1 /\ A_rm[5] = 0

\* C12: at the call of dgemm_ the arguments are M = m, N = l, K = n (all positive,
\* from the header), lda = m, ldb = n, ldc = m, both flags 'N', the buffers hold
\* m*n, n*l and m*l elements, and the largest offset the routine addresses in each
\* buffer lies inside it
C12_InvokerPreconditions ==
    (prog = "matmul" /\ args.called) =>
        /\ HdrM > 0 /\ HdrN > 0 /\ HdrL > 0
        /\ args.M = HdrM /\ args.N = HdrL /\ args.K = HdrN
        /\ args.lda = HdrM /\ args.ldb = HdrN /\ args.ldc = HdrM
        /\ args.transa = "N" /\ args.transb = "N"
        /\ args.lenA = HdrM * HdrN /\ args.lenB = HdrN * HdrL /\ args.lenC = HdrM * HdrL
        /\ args.lda * (args.K - 1) + args.M - 1 < args.lenA
        /\ args.ldb * (args.N - 1) + args.K - 1 < args.lenB
        /\ args.ldc * (args.N - 1) + args.M - 1 < args.lenC
        /\ Len(C) = args.lenC

\* dgemm_ was called for a 3x2 by 2x1 product
C12_Witness ==
    /\ prog = "matmul" /\ args.called
    /\ args.M = 3 /\ args.K = 2 /\ args.N = 1
    /\ args.lenA = 6

(* ------------------ C13 -------------------------------------------------- *)
\* the library call of the program has returned
AfterCall == pc \in {"check", "report", "csv", "done"}

\* the program printed its diagnostics and ended with status 0
Reported == pc = "done" /\ exitCode = 0 /\ printed

\* v is the largest of the distances |u[p] - w[p]|, or 0 when all are 0
IsMaxDistance(v, u, w) ==
    /\ \A p \in DOMAIN u : Fabs(u[p] - w[p]) <= v
    /\ v = 0 \/ \E p \in DOMAIN u : Fabs(u[p] - w[p]) = v

\* C13: the diagnostics are computed against the original data, not against a
\* buffer the library overwrote.  svd: the array handed to LAPACKE_dgesvd holds
\* the input before the call, A_orig holds the same values when the error is
\* measured, and the error printed is the largest |A_rec - input|.  linear: x
\* and y hold the points before and after LAPACKE_dgesv, ATy holds A^T y before
\* and after it, theta equals ATy when dgesv is called, and the residuals are
\* theta[0]*x + theta[1] - y over the points.  quadratic: B holds y when
\* LAPACKE_dgels is called, x and y hold the points before and after it, and the
\* residuals and SSE are a*x^2 + b*x + c - y over the points.
C13_DiagnosticsOnOriginalData ==
    /\ (prog = "svd" /\ pc = "call") => mem.A = SvdA
    /\ (prog = "svd" /\ Reported) =>
          /\ mem.A_orig = SvdA
          /\ report.A_rec = Mul2(Mul2(mem.U, <<mem.S[1], 0, 0, mem.S[2]>>), mem.VT)
          /\ IsMaxDistance(report.max_err, report.A_rec, SvdA)
    /\ (prog = "linear" /\ (pc = "call" \/ AfterCall)) =>
          /\ mem.x = LinearX /\ mem.y = LinearY /\ mem.y_rm = LinearY
          /\ mem.ATy = <<SumSeq([i \in 1..4 |-> LinearX[i] * LinearY[i]], 4),
                         SumSeq(LinearY, 4)>>
    /\ (prog = "linear" /\ pc = "call") => mem.theta = mem.ATy
    /\ (prog = "linear" /\ Reported) =>
          /\ DOMAIN report.err = 1..4
          /\ \A i \in 1..4 :
                report.err[i] = mem.theta[1] * LinearX[i] + mem.theta[2] - LinearY[i]
          /\ report.sse = SumSeq([i \in 1..4 |-> report.err[i] * report.err[i]], 4)
    /\ (prog = "quadratic" /\ pc = "call") => mem.B = QuadraticY
    /\ (prog = "quadratic" /\ (pc = "call" \/ AfterCall)) =>
          mem.x = QuadraticX /\ mem.y = QuadraticY
    /\ (prog = "quadratic" /\ Reported) =>
          /\ DOMAIN report.err = 1..6
          /\ \A i \in 1..6 :
                report.err[i] = mem.B[1] * QuadraticX[i] * QuadraticX[i]
                                + mem.B[2] * QuadraticX[i] + mem.B[3] - QuadraticY[i]
          /\ report.sse = SumSeq([i \in 1..6 |-> report.err[i] * report.err[i]], 6)
          /\ report.samples = 6

\* the quadratic fit reported its residuals after LAPACKE_dgels returned 0 and
\* left in B a content that differs from y at every point
C13_Witness ==
    /\ prog = "quadratic" /\ Reported /\ info = 0
    /\ calls = <<"LAPACKE_dgels">>
    /\ \A i \in 1..6 : mem.B[i] # mem.y[i]
    /\ report.sse > 0

=============================================================================
